---- MODULE Spec2Model ----
(***************************************************************************)
(* Year-progress desktop widget (src/main.py): desktop embedding           *)
(* (showEvent / attach_window / get_workerw / set_acrylic), the rounded    *)
(* clip mask (resizeEvent) and the persisted position (mouse handlers,     *)
(* load_settings / save_settings).                                         *)
(***************************************************************************)
EXTENDS Integers, Sequences, FiniteSets, TLC

VARIABLES
    visible,        \* the widget window is shown
    realized,       \* the native handle has been realized by a completed show
    shows,          \* show events delivered so far
    timers,         \* pending QTimer.singleShot(100, attach_window) callbacks
    attachRuns,     \* completed runs of attach_window
    parent,         \* native parent of the widget: NULL (top-level) or a WorkerW
    showCmd,        \* nCmdShow of the last ShowWindow call, NoCmd if none
    activated,      \* some ShowWindow call activated the window
    opLog,          \* user32 / helper calls made by the last attach_window run
    workerw,        \* what get_workerw returned in the last attach_window run
    acrylicCalls,   \* calls of set_acrylic on the widget's handle
    acrylicOS,      \* outcome of the last SetWindowCompositionAttribute call
    acrylicReturn,  \* what the last set_acrylic call returned to its caller
    unrealizedOps,  \* attach_window runs started on a handle not yet realized
    windows,        \* top-level windows in z-order, as seen by get_workerw
    found,          \* result of get_workerw on windows, Unset before the call
    size,           \* widget bounds <<width, height>>
    mask,           \* clip region set by setMask, NoMask before the first one
    pendingResize,  \* a resize event is owed to the widget (resized while hidden)
    lastPaint,      \* bounds and clip region in effect at the last paintEvent
    pos,            \* top-left corner of the widget <<x, y>>
    drag_start,     \* self.drag_start, NoDrag before the first left press
    buttons,        \* mouse buttons currently held
    store,          \* contents of config.json: NoFile or <<x, y>>
    lastSave        \* arguments of the last save_settings call, NoSave if none

embedVars == <<visible, realized, shows, timers, attachRuns, parent, showCmd,
               activated, opLog, workerw, acrylicCalls, acrylicOS,
               acrylicReturn, unrealizedOps>>
enumVars == <<windows, found>>
maskVars == <<size, mask, pendingResize, lastPaint>>
dragVars == <<pos, drag_start, buttons, store, lastSave>>
vars == <<embedVars, enumVars, maskVars, dragVars>>

\* ---------------------------------------------------------------- bounds
MaxShows == 3
MaxWindows == 3
MaxSizeSteps == 2
MaxCoord == 2

\* ------------------------------------------------------------- constants
NULL == 0
NoCmd == 0 - 1
Unset == 0 - 1
NoMask == <<>>
NoPaint == <<>>
NoDrag == <<>>
NoFile == <<>>
NoSave == <<>>
SW_SHOW == 5
CornerRadius == 20

Min(a, b) == IF a < b THEN a ELSE b

\* ------------------------------------------------- get_workerw (pure part)
\* A top-level window: its class is WorkerW or not, and it owns a
\* SHELLDLL_DefView child or not.  A handle is the window's z-order index.
Window == [workerwClass : BOOLEAN, shell : BOOLEAN]

WindowLists == UNION {[1..n -> Window] : n \in 0..MaxWindows}

\* user32.FindWindowExW(hwnd, 0, "SHELLDLL_DefView", None): non-NULL iff hwnd
\* owns a shell view child.
FindShellView(ws, hwnd) == IF ws[hwnd].shell THEN 1 ELSE NULL

\* user32.FindWindowExW(0, hwnd, "WorkerW", None): the first top-level window
\* of class WorkerW after hwnd in z-order, NULL if there is none.
FindWorkerWAfter(ws, hwnd) ==
    LET later == {j \in (hwnd + 1)..Len(ws) : ws[j].workerwClass}
    IN IF later = {} THEN NULL
       ELSE CHOOSE j \in later : \A k \in later : j <= k

\* The callback: overwrites the captured workerw when hwnd owns a shell view,
\* and always asks EnumWindows to continue.
find_workerw(ws, hwnd, acc) ==
    [workerw |-> IF FindShellView(ws, hwnd) # NULL
                 THEN FindWorkerWAfter(ws, hwnd) ELSE acc,
     continue |-> TRUE]

\* user32.EnumWindows: calls the callback on each top-level window in
\* z-order from hwnd on, until the callback returns FALSE.
RECURSIVE EnumWindows(_, _, _)
EnumWindows(ws, hwnd, acc) ==
    IF hwnd > Len(ws) THEN acc
    ELSE LET r == find_workerw(ws, hwnd, acc)
         IN IF r.continue THEN EnumWindows(ws, hwnd + 1, r.workerw)
            ELSE r.workerw

\* workerw = None is modelled as NULL: both are falsy for `if workerw:`.
get_workerw(ws) == EnumWindows(ws, 1, NULL)

\* ------------------------------------------------------------ ShowWindow
\* Win32 nCmdShow values that display the window without activating it:
\* SW_SHOWNOACTIVATE (4), SW_SHOWMINNOACTIVE (7) and SW_SHOWNA (8).  SW_SHOW
\* (5) "activates the window and displays it".
NoActivate(cmd) == cmd \in {4, 7, 8}

\* ------------------------------------------------------------ RegionMasker
\* QPainterPath.addRoundedRect(QRectF(self.rect()), 20, 20) turned into a
\* region: the bounds and the corner radii, each radius clamped to half the
\* side as Qt does for absolute radii.
RoundedMask(w, h, xr, yr) ==
    [w |-> w, h |-> h, rx |-> Min(xr, w \div 2), ry |-> Min(yr, h \div 2)]

\* Pixel (x, y) lies inside the rounded rectangle m: inside the bounds and
\* not cut off by the elliptical corner nearest to it.
Contains(m, x, y) ==
    /\ 0 <= x /\ x < m.w /\ 0 <= y /\ y < m.h
    /\ LET dx == IF x < m.rx THEN m.rx - x
                 ELSE IF x >= m.w - m.rx THEN x - (m.w - m.rx - 1) ELSE 0
           dy == IF y < m.ry THEN m.ry - y
                 ELSE IF y >= m.h - m.ry THEN y - (m.h - m.ry - 1) ELSE 0
       IN (dx = 0) \/ (dy = 0)
          \/ dx * dx * m.ry * m.ry + dy * dy * m.rx * m.rx
               <= m.rx * m.rx * m.ry * m.ry

\* YearWidget.resizeEvent, never recomputing a mask once one is set.
resizeEvent_stale(rect) ==
    mask' = IF mask = NoMask
            THEN RoundedMask(rect[1], rect[2], CornerRadius, CornerRadius)
            ELSE mask

\* YearWidget.resizeEvent: the mask is rebuilt from self.rect(), the bounds
\* at the time the event is handled.
resizeEvent(rect) ==
    mask' = RoundedMask(rect[1], rect[2], CornerRadius, CornerRadius)

\* YearWidget.__init__: the fixed square size of the widget.
FinalSize(total_days) ==
    LET dot_size == 5
        gap == 6
        dots_per_row == 28
        padding == 30
        text_height == 58
        rows == (total_days + dots_per_row - 1) \div dots_per_row
        w_width == dots_per_row * (dot_size + gap)
        w_height == rows * (dot_size + gap)
        a == w_width + padding * 2
        b == w_height + padding * 2 + text_height
    IN IF a > b THEN a ELSE b

\* refresh_date: 366 days in a leap year, 365 otherwise.
TotalDays == {365, 366}

Widths == {300 + 50 * i : i \in 0..MaxSizeSteps}
Heights == {250 + 50 * i : i \in 0..MaxSizeSteps}

\* ------------------------------------------------------- EmbeddingCoordinator
\* attach_window looking the host container up a second time when absent.
AttachCalls_retry(w) ==
    <<"set_acrylic", "get_workerw">>
        \o (IF w # NULL THEN <<"SetParent", "ShowWindow">>
            ELSE <<"get_workerw">>)

\* The calls attach_window makes, in program order, when get_workerw gives w.
AttachCalls(w) ==
    <<"set_acrylic", "get_workerw">>
        \o (IF w # NULL THEN <<"SetParent", "ShowWindow">> ELSE <<>>)

\* set_acrylic: one SetWindowCompositionAttribute call whose BOOL result
\* (ok) is dropped; the function returns None either way.
set_acrylic(ok) ==
    /\ acrylicCalls' = acrylicCalls + 1
    /\ acrylicOS' = (IF ok THEN "ok" ELSE "failed")
    /\ acrylicReturn' = "None"

\* attach_window reparenting whatever get_workerw returned, found or not.
Reparent_always(w) ==
    /\ parent' = w
    /\ showCmd' = (IF w # NULL THEN SW_SHOW ELSE showCmd)
    /\ activated' = (activated \/ (w # NULL /\ ~NoActivate(SW_SHOW)))

\* Lines 152-154: only when a WorkerW was found, SetParent(hwnd, workerw)
\* and then ShowWindow(hwnd, 5).
Reparent(w) ==
    /\ parent' = (IF w # NULL THEN w ELSE parent)
    /\ showCmd' = (IF w # NULL THEN SW_SHOW ELSE showCmd)
    /\ activated' = (activated \/ (w # NULL /\ ~NoActivate(SW_SHOW)))

\* attach_window giving up when the composition call failed.
AttachBody_abort(ok, w) ==
    /\ attachRuns' = attachRuns + 1
    /\ unrealizedOps' = (IF realized THEN unrealizedOps ELSE unrealizedOps + 1)
    /\ set_acrylic(ok)
    /\ IF ok
       THEN /\ workerw' = w
            /\ opLog' = AttachCalls(w)
            /\ Reparent(w)
       ELSE /\ opLog' = <<"set_acrylic">>
            /\ UNCHANGED <<workerw, parent, showCmd, activated>>

\* The body of attach_window on the widget's handle: set_acrylic, then
\* get_workerw, then the conditional reparent and show.
AttachBody(ok, w) ==
    /\ attachRuns' = attachRuns + 1
    /\ unrealizedOps' = (IF realized THEN unrealizedOps ELSE unrealizedOps + 1)
    /\ set_acrylic(ok)
    /\ workerw' = w
    /\ opLog' = AttachCalls(w)
    /\ Reparent(w)

\* YearWidget.attach_window, run by the event loop for one expired
\* single-shot timer.  The desktop's windows and the outcome of the
\* composition call are the environment's.
attach_window ==
    /\ timers > 0
    /\ timers' = timers - 1
    /\ \E ok \in BOOLEAN, ws \in WindowLists :
          /\ AttachBody(ok, get_workerw(ws))
          /\ visible' = (visible \/ get_workerw(ws) # NULL)
    /\ UNCHANGED <<realized, shows>>
    /\ UNCHANGED <<enumVars, maskVars, dragVars>>

\* showEvent calling attach_window directly instead of deferring it.
showEvent_sync ==
    /\ \E ok \in BOOLEAN, ws \in WindowLists : AttachBody(ok, get_workerw(ws))
    /\ timers' = timers
    /\ realized' = TRUE
    /\ visible' = TRUE

\* YearWidget.showEvent: schedule attach_window as a single-shot timer, then
\* let QWidget finish the show, which realizes the native window.
showEvent ==
    /\ timers' = timers + 1
    /\ realized' = TRUE
    /\ visible' = TRUE
    /\ UNCHANGED <<attachRuns, parent, showCmd, activated, opLog, workerw,
                   acrylicCalls, acrylicOS, acrylicReturn, unrealizedOps>>

\* widget.show() (or a later re-show): Qt first delivers the resize event it
\* owes the widget, then the show event.
Show ==
    /\ ~visible
    /\ shows < MaxShows
    /\ shows' = shows + 1
    /\ IF pendingResize THEN resizeEvent(size) ELSE UNCHANGED mask
    /\ pendingResize' = FALSE
    /\ showEvent
    /\ UNCHANGED <<size, lastPaint>>
    /\ UNCHANGED <<enumVars, dragVars>>

\* The window is hidden; nothing in YearWidget handles it.
Hide ==
    /\ visible
    /\ visible' = FALSE
    /\ UNCHANGED <<realized, shows, timers, attachRuns, parent, showCmd,
                   activated, opLog, workerw, acrylicCalls, acrylicOS,
                   acrylicReturn, unrealizedOps>>
    /\ UNCHANGED <<enumVars, maskVars, dragVars>>

\* State after YearWidget() has been constructed and before widget.show().
EmbedInit ==
    /\ visible = FALSE
    /\ realized = FALSE
    /\ shows = 0
    /\ timers = 0
    /\ attachRuns = 0
    /\ parent = NULL
    /\ showCmd = NoCmd
    /\ activated = FALSE
    /\ opLog = <<>>
    /\ workerw = NULL
    /\ acrylicCalls = 0
    /\ acrylicOS = "none"
    /\ acrylicReturn = "none"
    /\ unrealizedOps = 0

EnumIdle == windows = <<>> /\ found = Unset

\* setFixedSize(final_size, final_size) on a widget not yet shown: the
\* resize event, and with it the first mask, is owed until the show.
MaskInit ==
    /\ \E total_days \in TotalDays :
          size = <<FinalSize(total_days), FinalSize(total_days)>>
    /\ mask = NoMask
    /\ pendingResize = TRUE
    /\ lastPaint = NoPaint

DragIdle ==
    /\ pos = <<0, 0>>
    /\ drag_start = NoDrag
    /\ buttons = {}
    /\ store = NoFile
    /\ lastSave = NoSave

InitEmbed == EmbedInit /\ EnumIdle /\ MaskInit /\ DragIdle

NextEmbed == Show \/ Hide \/ attach_window

SpecEmbed == InitEmbed /\ [][NextEmbed]_vars

\* ------------------------------------------------------- WindowEnumerator
\* The desktop as get_workerw finds it: any list of top-level windows.
InitEnum ==
    /\ EmbedInit /\ MaskInit /\ DragIdle
    /\ windows \in WindowLists
    /\ found = Unset

\* One call of get_workerw on the desktop's windows.
CallGetWorkerw ==
    /\ found = Unset
    /\ found' = get_workerw(windows)
    /\ UNCHANGED <<windows, embedVars, maskVars, dragVars>>

NextEnum == CallGetWorkerw

SpecEnum == InitEnum /\ [][NextEnum]_vars

\* ------------------------------------------------------ resize and paint
\* The widget's bounds change (DPI or scale-factor change).  Qt delivers the
\* resize event at once to a visible widget and owes it to a hidden one.
Resize ==
    /\ \E w \in Widths, h \in Heights :
          /\ <<w, h>> # size
          /\ size' = <<w, h>>
    /\ IF visible
       THEN resizeEvent(size') /\ pendingResize' = FALSE
       ELSE pendingResize' = TRUE /\ UNCHANGED mask
    /\ UNCHANGED lastPaint
    /\ UNCHANGED <<embedVars, enumVars, dragVars>>

\* YearWidget.paintEvent on the visible widget: painting is clipped by the
\* mask in effect; neither bounds nor mask are changed.
paintEvent ==
    /\ visible
    /\ lastPaint' = [bounds |-> size, clip |-> mask]
    /\ UNCHANGED <<size, mask, pendingResize>>
    /\ UNCHANGED <<embedVars, enumVars, dragVars>>

InitMask == EmbedInit /\ EnumIdle /\ MaskInit /\ DragIdle

NextMask == Show \/ Hide \/ Resize \/ paintEvent

SpecMask == InitMask /\ [][NextMask]_vars

\* ------------------------------------------------- dragging and the store
Coords == 0..MaxCoord
Points == Coords \X Coords

\* QPoint subtraction.
Minus(p, q) == <<p[1] - q[1], p[2] - q[2]>>
Plus(p, q) == <<p[1] + q[1], p[2] + q[2]>>

\* save_settings(x, y): config.json is rewritten with {"x": x, "y": y}; a
\* failure to open or write it is swallowed and leaves the file as it was.
save_settings(x, y, writable) == IF writable THEN <<x, y>> ELSE store

\* mouseMoveEvent moving the widget without saving its position.
mouseMoveEvent_nosave ==
    /\ visible
    /\ buttons # {}
    /\ \E g \in Points :
          IF buttons = {"L"}
          THEN /\ pos' = Minus(g, drag_start)
               /\ UNCHANGED <<store, lastSave>>
          ELSE UNCHANGED <<pos, store, lastSave>>
    /\ UNCHANGED <<drag_start, buttons>>
    /\ UNCHANGED <<embedVars, enumVars, maskVars>>

\* YearWidget.mousePressEvent for button b pressed at offset d inside the
\* widget: a left press records drag_start = globalPosition - topLeft.
mousePressEvent ==
    /\ visible
    /\ \E b \in {"L", "R"} \ buttons, d \in Points :
          /\ buttons' = buttons \cup {b}
          /\ drag_start' = IF b = "L" THEN Minus(Plus(pos, d), pos)
                           ELSE drag_start
    /\ UNCHANGED <<pos, store, lastSave>>
    /\ UNCHANGED <<embedVars, enumVars, maskVars>>

\* YearWidget.mouseMoveEvent with the cursor at g: delivered while a button
\* is held; with exactly the left button held the widget is moved to
\* g - drag_start and that position is saved.
mouseMoveEvent ==
    /\ visible
    /\ buttons # {}
    /\ \E g \in Points, writable \in BOOLEAN :
          IF buttons = {"L"}
          THEN /\ pos' = Minus(g, drag_start)
               /\ store' = save_settings(pos'[1], pos'[2], writable)
               /\ lastSave' = <<pos'[1], pos'[2]>>
          ELSE UNCHANGED <<pos, store, lastSave>>
    /\ UNCHANGED <<drag_start, buttons>>
    /\ UNCHANGED <<embedVars, enumVars, maskVars>>

\* A button is released.  YearWidget does not override mouseReleaseEvent:
\* QWidget's default handler changes nothing of the widget's state.
mouseReleaseEvent ==
    /\ visible
    /\ \E b \in buttons : buttons' = buttons \ {b}
    /\ UNCHANGED <<pos, drag_start, store, lastSave>>
    /\ UNCHANGED <<embedVars, enumVars, maskVars>>

\* load_settings in the constructor: the widget is moved to the stored
\* position when config.json exists.
DragInit ==
    /\ store \in {NoFile} \cup Points
    /\ pos = IF store = NoFile THEN <<0, 0>> ELSE store
    /\ drag_start = NoDrag
    /\ buttons = {}
    /\ lastSave = NoSave

InitDrag == EmbedInit /\ EnumIdle /\ MaskInit /\ DragInit

NextDrag == Show \/ mousePressEvent \/ mouseMoveEvent \/ mouseReleaseEvent

SpecDrag == InitDrag /\ [][NextDrag]_vars

\* ================================================================ claims
\* The coordinator's state in the words of the specification.
EmbedState ==
    IF ~realized THEN "NotRealized"
    ELSE IF parent # NULL THEN "Embedded"
    ELSE IF attachRuns > 0 THEN "EmbedFailed"
    ELSE "Realized"

\* A step that is one run of attach_window.
AttachStep == attachRuns' = attachRuns + 1

\* C1: over any sequence of show events attach_window is invoked exactly
\* once, after the first show, and never again for later show events.
C1_InvokedExactlyOnce == attachRuns <= 1

\* C2: no embedding operation runs before the native handle is realized:
\* attach_window only runs as a single-shot deferred callback, after the
\* show event that scheduled it has completed (one run per completed show
\* event at most, each on a realized handle).
C2_DeferredUntilRealized ==
    /\ unrealizedOps = 0
    /\ attachRuns > 0 => realized
    /\ attachRuns + timers = shows

C2_Witness ==
    /\ attachRuns = 1
    /\ Len(opLog) >= 2
    /\ realized
    /\ timers = 0

\* C3: when get_workerw returns a host container, the window is first
\* reparented (SetParent) and only then shown, and the show state is a
\* "show, no-activate" one that never activates the window.
C3_ReparentThenShowNoActivate ==
    (attachRuns > 0 /\ workerw # NULL) =>
        /\ opLog = <<"set_acrylic", "get_workerw", "SetParent", "ShowWindow">>
        /\ parent = workerw
        /\ NoActivate(showCmd)
        /\ ~activated

\* C4: when get_workerw returns absent, the run ends in EmbedFailed: no
\* reparent, no show-state call, exactly one lookup (no retry), and parent
\* and visibility are what they were before the run.
C4_AbsentLeavesWindowAlone ==
    [][(AttachStep /\ workerw' = NULL) =>
          /\ opLog' = <<"set_acrylic", "get_workerw">>
          /\ parent' = parent
          /\ visible' = visible
          /\ showCmd' = showCmd
          /\ activated' = activated
          /\ (parent = NULL => EmbedState' = "EmbedFailed")]_vars

C4_Witness ==
    /\ attachRuns > 0
    /\ workerw = NULL
    /\ EmbedState = "EmbedFailed"
    /\ visible
    /\ showCmd = NoCmd

\* The windows of ws that own a shell view child, in enumeration order.
ShellOwners(ws) == {i \in 1..Len(ws) : ws[i].shell}

\* The container of the first shell-view owner, NULL without an owner.
FirstMatch(ws) ==
    IF ShellOwners(ws) = {} THEN NULL
    ELSE FindWorkerWAfter(ws, CHOOSE i \in ShellOwners(ws) :
                                  \A k \in ShellOwners(ws) : i <= k)

\* C5: get_workerw returns the container found for the first enumerated
\* window that owns a shell view child, later owners never change it, and
\* it returns absent exactly when no enumerated window yields a container.
C5_FirstMatchWins ==
    found # Unset =>
        /\ found = FirstMatch(windows)
        /\ (found = NULL) <=>
              (\A i \in ShellOwners(windows) :
                   FindWorkerWAfter(windows, i) = NULL)

C7_EmbeddedStaysEmbedded ==
    [][parent # NULL => (parent' # NULL /\ EmbedState' = "Embedded")]_vars

C7_Witness ==
    /\ attachRuns >= 2
    /\ workerw = NULL
    /\ EmbedState = "Embedded"

\* C8: at every paint the clip mask in effect is the rounded rectangle of
\* corner radius 20 computed from the widget's current bounds; a mask
\* computed for earlier bounds is never in effect while the widget is shown.
C8_MaskMatchesBounds ==
    /\ visible => mask = RoundedMask(size[1], size[2], CornerRadius,
                                     CornerRadius)
    /\ lastPaint # NoPaint =>
          lastPaint.clip = RoundedMask(lastPaint.bounds[1],
                                       lastPaint.bounds[2],
                                       CornerRadius, CornerRadius)

C8_Witness ==
    /\ lastPaint # NoPaint
    /\ lastPaint.bounds = <<400, 250>>
    /\ size = <<400, 250>>
    /\ visible
    /\ ~Contains(lastPaint.clip, 0, 0)
    /\ ~Contains(lastPaint.clip, 399, 249)
    /\ Contains(lastPaint.clip, 200, 125)

\* A move event of a drag: the left button alone stays held.
DragMoveStep == buttons = {"L"} /\ buttons' = {"L"}

\* C9: the position store is written when a drag is released, with the
\* final position, and not on the drag's intermediate move events.
C9_SavedOnReleaseOnly ==
    [][DragMoveStep => (lastSave' = lastSave /\ store' = store)]_vars

\* C9 amended: save_settings is called on every move event of a drag with
\* the position the widget was just moved to (a store that can be written
\* then holds it), and nothing is written when a button is released.
C9_SavedOnEveryMove ==
    [][/\ DragMoveStep =>
            /\ lastSave' = pos'
            /\ store' \in {pos', store}
       /\ pos' # pos => DragMoveStep
       /\ buttons' # buttons => (lastSave' = lastSave /\ store' = store)]_vars

C9_Witness ==
    /\ buttons = {}
    /\ lastSave # NoSave
    /\ lastSave = pos
    /\ store = pos
    /\ pos # <<0, 0>>

\* C10: in every run of attach_window blur is applied before the host
\* container is queried, found or not; across runs blur is attempted once
\* per window handle and not re-issued while the handle is the same.
C10_BlurFirstAndOncePerHandle ==
    /\ attachRuns > 0 =>
          /\ Len(opLog) >= 2
          /\ opLog[1] = "set_acrylic"
          /\ opLog[2] = "get_workerw"
    /\ acrylicCalls <= 1

====
